---- MODULE Spec2Model ----
\* Model of the Telegram calendar bot (src/app.py): the message handler, the
\* translator adapter (gemini_parse_command), the time helpers and the three
\* calendar actions.  The reasoning service and the calendar store are external:
\* what they answer is an input of the handler.
EXTENDS Integers, Sequences, FiniteSets, TLC

\* ------------------------------------------------------------------ bounds
\* Number of clock readings the model distinguishes.
MaxClock == 2
\* Largest number of events the store's list-events answer may carry.
MaxItems == 2

\* ------------------------------------------------------- python values
\* A Python value is a tagged record; only the tag is compared across kinds.
PyNone == [t |-> "None"]
PyInt(n) == [t |-> "int", n |-> n]
\* A plain string (kind "text"), or the empty string (kind "empty").
PyStr(s) == [t |-> "str", kind |-> IF s = "" THEN "empty" ELSE "text", s |-> s]
\* A string that holds an ISO-8601 timestamp, with or without a UTC offset
\* (off is in minutes and only meaningful when aware).
IsoStr(day, sec, us, aware, off) ==
    [t |-> "str", kind |-> "iso", s |-> "iso",
     day |-> day, sec |-> sec, us |-> us, aware |-> aware, off |-> off]
\* A datetime object.
DateTime(day, sec, us, aware, off) ==
    [day |-> day, sec |-> sec, us |-> us, aware |-> aware, off |-> off]

\* Python truthiness of a value (`if x:` / `if not x:`).
Truthy(v) ==
    CASE v.t = "None" -> FALSE
      [] v.t = "int" -> v.n # 0
      [] v.t = "str" -> v.kind # "empty"
      [] v.t = "dict" -> DOMAIN v.d # {}
      [] v.t = "list" -> v.n # 0
      [] OTHER -> TRUE

IsText(v, s) == v.t = "str" /\ v.kind = "text" /\ v.s = s

\* A call that either returns a value or raises.
Ok(v) == [raised |-> "none", val |-> v]
Raise(e) == [raised |-> e, val |-> PyNone]

\* ------------------------------------------------------------ time helpers
\* BOT_TZ defaults to Asia/Kolkata: UTC+05:30, no daylight saving.
BOT_TZ == 330

\* The instant a timestamp denotes, in seconds; an offset-less one is read as UTC.
Abs(x) == x.day * 86400 + x.sec - (IF x.aware THEN x.off * 60 ELSE 0)

\* tz.localize(dt): attach the reference timezone's offset to a naive datetime.
localize(dt) == [dt EXCEPT !.aware = TRUE, !.off = BOT_TZ]

\* dt.isoformat(): keeps the microseconds and the (possibly missing) offset.
isoformat(dt) == IsoStr(dt.day, dt.sec, dt.us, dt.aware, dt.off)

\* dt.isoformat(timespec="seconds"): microseconds are cut off.
isoformat_seconds(dt) == IsoStr(dt.day, dt.sec, 0, dt.aware, dt.off)

to_iso(dt) ==
    LET d == IF ~dt.aware THEN localize(dt) ELSE dt
    IN  isoformat_seconds(d)

\* dateutil's parser.parse: a datetime for a timestamp string, an exception
\* for anything else (ParserError for other text, TypeError for a non-string).
dateparser_parse(s) ==
    IF s.t = "str" /\ s.kind = "iso"
    THEN Ok(DateTime(s.day, s.sec, s.us, s.aware, s.off))
    ELSE Raise(IF s.t = "str" THEN "ParserError" ELSE "TypeError")

ensure_iso_with_tz(s) ==
    LET p == dateparser_parse(s)
    IN  IF p.raised # "none" THEN p
        ELSE Ok(to_iso(IF ~p.val.aware THEN localize(p.val) ELSE p.val))

\* dt + timedelta(hours=1)
plus_one_hour(dt) ==
    [dt EXCEPT !.day = dt.day + ((dt.sec + 3600) \div 86400),
               !.sec = (dt.sec + 3600) % 86400]

\* dt.replace(hour=9, minute=0): second and microsecond are left as they are.
replace_9_00(dt) == [dt EXCEPT !.sec = 9 * 3600 + (dt.sec % 60)]

\* now_in_tz(BOT_TZ) at the i-th clock reading: 08:00:00 on day 1, then
\* 6h23m37.25s later each time.
now_in_tz(i) ==
    DateTime(1 + ((28800 + i * 23017) \div 86400), (28800 + i * 23017) % 86400,
             (i * 250000) % 1000000, TRUE, BOT_TZ)

\* ------------------------------------------------------------- user text
\* The user's text is a sequence of words.  str.lower() and the substring test
\* `k in lowered` are given by tables over the words of the model's vocabulary.
lower(w) ==
    CASE w = "Add" -> "add"
      [] w = "Show" -> "show"
      [] OTHER -> w

CueWords == {"add", "schedule", "create", "book",
             "delete", "remove", "cancel",
             "show", "list", "what's", "upcoming"}

\* The cue keywords that occur as substrings of a lower-case word.
SubstringsOf(w) ==
    CASE w \in CueWords -> {w}
      [] w = "booking" -> {"book"}
      [] OTHER -> {}

\* `k in user_text.lower()`
InLowered(k, user_text) ==
    \E i \in 1..Len(user_text) : k \in SubstringsOf(lower(user_text[i]))

\* any(k in lowered for k in keys)
any_in(keys, user_text) == \E k \in keys : InLowered(k, user_text)

\* -------------------------------------------------------------- translator
EmptyDict == [k \in {} |-> PyNone]
PyDict(d) == [t |-> "dict", d |-> d]
PyList(elems) == [t |-> "list", n |-> Len(elems), elems |-> elems]

\* `"intent" in s` for a string s.
IntentSubstring(s) == s = "intent unclear"

\* json.loads of the text the adapter ends up with.  The regular expression
\* takes the span from the first "{" to the last "}" when there is one.
json_loads(resp) ==
    CASE resp.shape = "bare" -> Ok(resp.json)
      [] resp.shape = "wrapped" ->
            IF resp.json.t = "dict" THEN Ok(resp.json) ELSE Raise("JSONDecodeError")
      [] OTHER -> Raise("JSONDecodeError")

\* Lines 155-165: guess the intent when the translation has none.
guess_intent(user_text, data) ==
    IF data.t \notin {"dict", "list", "str"} THEN Raise("TypeError")
    ELSE
    LET absent == CASE data.t = "dict" -> "intent" \notin DOMAIN data.d
                    [] data.t = "list" ->
                         ~ \E i \in 1..Len(data.elems) : IsText(data.elems[i], "intent")
                    [] OTHER -> ~ IntentSubstring(data.s)
        guess == IF any_in({"add", "schedule", "create", "book"}, user_text) THEN "create"
                 ELSE IF any_in({"delete", "remove", "cancel"}, user_text) THEN "delete"
                 ELSE IF any_in({"show", "list", "what's", "upcoming"}, user_text) THEN "list"
                 ELSE "none"
    IN  IF ~absent \/ guess = "none" THEN Ok(data)
        ELSE IF data.t = "dict" THEN Ok(PyDict(("intent" :> PyStr(guess)) @@ data.d))
        ELSE Raise("TypeError")

\* The text of the first part of the first candidate, or None.
extract_text(resp) ==
    IF resp.shape = "missing" THEN PyNone
    ELSE IF resp.shape = "empty" THEN PyStr("")
    ELSE PyStr("text")

\* The body of the try block (lines 131-165): the value returned, or the
\* exception raised inside it.
try_parse(user_text, resp) ==
    CASE resp.status \in {"timeout", "conn_error"} -> Raise("RequestException")
      [] resp.status = "http_error" -> Raise("HTTPError")
      [] resp.status = "bad_body" -> Raise("JSONDecodeError")
      [] OTHER ->
            IF ~Truthy(extract_text(resp)) THEN Ok(PyNone)
            ELSE LET loaded == json_loads(resp)
                 IN  IF loaded.raised # "none" THEN loaded
                     ELSE guess_intent(user_text, loaded.val)

\* A plausible slip: a failed translation falls back to a default command.
gemini_parse_command_fallback(user_text, resp) ==
    LET r == try_parse(user_text, resp)
    IN  IF r.raised # "none" \/ r.val.t = "None"
        THEN PyDict("intent" :> PyStr("list"))
        ELSE r.val

\* Lines 111-168: every exception of the try block is logged and becomes None.
gemini_parse_command(user_text, resp) ==
    LET r == try_parse(user_text, resp)
    IN  IF r.raised # "none" THEN PyNone ELSE r.val

\* ---------------------------------------------------------- calendar store
\* What a calendar action did: the store calls it issued, in order, the
\* exception it raised ("none" if it returned) and the message it returned.
NoMsg == [text |-> "", args |-> <<>>]
Msg(text, args) == [text |-> text, args |-> args]
Returned(calls, msg) == [calls |-> calls, raised |-> "none", msg |-> msg]
Raised(calls, e) == [calls |-> calls, raised |-> e, msg |-> NoMsg]

\* The store answers a list-events call with at most maxResults events.
Answer(items, maxResults) ==
    IF maxResults.t = "int" /\ maxResults.n < Len(items)
    THEN SubSeq(items, 1, IF maxResults.n < 0 THEN 0 ELSE maxResults.n)
    ELSE items

\* A plausible slip: the insert is tried again when the store fails it.
cal_create_retry(summary, start_iso, end_iso, fault) ==
    LET ins == [op |-> "insert", calendarId |-> "primary", summary |-> summary,
                start |-> start_iso, end |-> end_iso, timeZone |-> BOT_TZ,
                ok |-> fault # 1]
    IN  IF fault = 1
        THEN Returned(<<ins, [ins EXCEPT !.ok = TRUE]>>,
                      Msg("Created", <<summary, start_iso, end_iso>>))
        ELSE Returned(<<ins>>, Msg("Created", <<summary, start_iso, end_iso>>))

\* Lines 173-180.  fault = k: the store fails the k-th call of this message.
cal_create(summary, start_iso, end_iso, fault) ==
    LET ins == [op |-> "insert", calendarId |-> "primary", summary |-> summary,
                start |-> start_iso, end |-> end_iso, timeZone |-> BOT_TZ,
                ok |-> fault # 1]
    IN  IF fault = 1 THEN Raised(<<ins>>, "HttpError")
        ELSE Returned(<<ins>>, Msg("Created", <<summary, start_iso, end_iso>>))

\* Lines 182-197.
cal_list(starting_from_iso, max_results, now, fault, items) ==
    LET sf == IF ~Truthy(starting_from_iso) THEN to_iso(now) ELSE starting_from_iso
        mr == IF ~Truthy(max_results) THEN PyInt(5) ELSE max_results
        p == dateparser_parse(sf)
    IN  IF p.raised # "none" THEN Raised(<<>>, p.raised)
        ELSE
        LET got == IF fault = 1 THEN <<>> ELSE Answer(items, mr)
            lst == [op |-> "list", calendarId |-> "primary",
                    timeMin |-> isoformat(p.val), maxResults |-> mr,
                    singleEvents |-> TRUE, orderBy |-> "startTime", q |-> PyNone,
                    ok |-> fault # 1, items |-> got]
        IN  IF fault = 1 THEN Raised(<<lst>>, "HttpError")
            ELSE IF got = <<>> THEN Returned(<<lst>>, Msg("No upcoming events found.", <<>>))
            ELSE IF \E i \in 1..Len(got) : ~got[i].titled
                 THEN Raised(<<lst>>, "KeyError")
            ELSE Returned(<<lst>>, Msg("Events", got))

\* Line 204: the event that is deleted.
last_event_id(items) == items[Len(items)].id

first_event_id(items) == items[1].id

\* Lines 199-207.
cal_delete(summary, ref_start_iso, now, fault, items) ==
    LET p == IF Truthy(ref_start_iso) THEN dateparser_parse(ref_start_iso)
             ELSE Ok(now)
    IN  IF p.raised # "none" THEN Raised(<<>>, p.raised)
        ELSE
        LET search_from == IF Truthy(ref_start_iso) THEN isoformat(p.val)
                           ELSE to_iso(now)
            got == IF fault = 1 THEN <<>> ELSE Answer(items, PyInt(10))
            lst == [op |-> "list", calendarId |-> "primary",
                    timeMin |-> search_from, maxResults |-> PyInt(10),
                    singleEvents |-> TRUE, orderBy |-> "startTime", q |-> summary,
                    ok |-> fault # 1, items |-> got]
        IN  IF fault = 1 THEN Raised(<<lst>>, "HttpError")
            ELSE IF got # <<>>
                 THEN LET del == [op |-> "delete", calendarId |-> "primary",
                                  eventId |-> first_event_id(got), ok |-> fault # 2]
                      IN  IF fault = 2 THEN Raised(<<lst, del>>, "HttpError")
                          ELSE Returned(<<lst, del>>, Msg("Deleted", <<summary>>))
            ELSE Returned(<<lst>>, Msg("Couldn't find an event to delete.", <<>>))

\* ----------------------------------------------------------------- handler
\* parsed.get(k) and parsed.get(k, default)
get(d, k, default) == IF k \in DOMAIN d THEN d[k] ELSE default

\* What handling one message did.
Outcome(parsed, calls, replies, raised) ==
    [parsed |-> parsed, calls |-> calls, replies |-> replies, raised |-> raised]

\* Lines 234-247: dispatch on the intent and reply with the action's message.
\* c holds the handler's local variables.
dispatch(parsed, c, now, fault, items) ==
    LET r == CASE IsText(c.intent, "list") ->
                     cal_list(c.starting_from, c.max_results, now, fault, items)
               [] IsText(c.intent, "create") ->
                     LET s == IF ~Truthy(c.start_iso) THEN to_iso(replace_9_00(now))
                              ELSE c.start_iso
                         e == IF ~Truthy(c.end_iso)
                              THEN to_iso(plus_one_hour(dateparser_parse(s).val))
                              ELSE c.end_iso
                     IN  cal_create(c.summary, s, e, fault)
               [] IsText(c.intent, "delete") ->
                     cal_delete(c.summary, c.start_iso, now, fault, items)
               [] OTHER ->
                     Returned(<<>>, Msg("Sorry, I couldn't process that request.", <<>>))
    IN  IF r.raised # "none" THEN Outcome(parsed, r.calls, <<>>, r.raised)
        ELSE Outcome(parsed, r.calls, <<r.msg>>, "none")

\* Lines 215-247.
handle_message(user_text, resp, now, fault, items) ==
    LET parsed == gemini_parse_command(user_text, resp)
    IN  IF ~Truthy(parsed)
        THEN Outcome(parsed, <<>>, <<Msg("Sorry, I couldn't understand that.", <<>>)>>, "none")
        ELSE IF parsed.t # "dict" THEN Outcome(parsed, <<>>, <<>>, "AttributeError")
        ELSE
        LET d == parsed.d
            intent == get(d, "intent", PyNone)
            summary == get(d, "summary", PyStr("Untitled Event"))
            start0 == get(d, "start", PyNone)
            end0 == get(d, "end", PyNone)
            starting_from == get(d, "starting_from", PyNone)
            max_results == get(d, "max_results", PyNone)
            s == IF Truthy(start0) THEN ensure_iso_with_tz(start0) ELSE Ok(start0)
        IN  IF s.raised # "none" THEN Outcome(parsed, <<>>, <<>>, s.raised)
            ELSE
            LET e == IF Truthy(end0) THEN ensure_iso_with_tz(end0) ELSE Ok(end0)
            IN  IF e.raised # "none" THEN Outcome(parsed, <<>>, <<>>, e.raised)
                ELSE dispatch(parsed,
                              [intent |-> intent, summary |-> summary,
                               start_iso |-> s.val, end_iso |-> e.val,
                               starting_from |-> starting_from,
                               max_results |-> max_results],
                              now, fault, items)

\* ------------------------------------------------------------------ inputs
\* Texts a user sends.
Texts == {<<"xyzzy">>, <<"Add", "lunch">>, <<"cancel", "lunch">>,
          <<"Show", "upcoming", "events">>, <<"cancel", "my", "booking">>}

\* Timestamp strings the translator produces: without an offset, with the
\* reference offset, with another offset (UTC).
NaiveTime == IsoStr(2, 18 * 3600, 0, FALSE, 0)
LocalTime == IsoStr(2, 19 * 3600, 0, TRUE, BOT_TZ)
UtcTime == IsoStr(2, 23 * 3600 + 1800, 0, TRUE, 0)
Garbage == PyStr("next blue moon")

Opt(k, vals) == {EmptyDict} \cup {k :> v : v \in vals}

\* JSON objects the translator produces.
CreateDicts ==
    {i @@ s @@ a @@ b :
        i \in {"intent" :> PyStr("create")},
        s \in Opt("summary", {PyStr("Lunch")}),
        a \in Opt("start", {PyStr(""), Garbage, NaiveTime, UtcTime}),
        b \in Opt("end", {Garbage, LocalTime})}
ListDicts ==
    {i @@ a @@ b :
        i \in {"intent" :> PyStr("list")},
        a \in Opt("starting_from", {Garbage, NaiveTime, UtcTime}),
        b \in Opt("max_results", {PyInt(0), PyInt(1), PyInt(1000)})}
DeleteDicts ==
    {i @@ s @@ a :
        i \in {"intent" :> PyStr("delete")},
        s \in Opt("summary", {PyStr("Lunch")}),
        a \in Opt("start", {Garbage, NaiveTime, UtcTime})}
OtherDicts ==
    {i @@ s @@ a :
        i \in {"intent" :> PyStr(x) :
                 x \in {"modify", "list_calendars", "create_calendar",
                        "delete_calendar", "reschedule"}},
        s \in Opt("summary", {PyStr("Lunch")}),
        a \in Opt("start", {Garbage, UtcTime})}
NoIntentDicts ==
    {s @@ a @@ b @@ c :
        s \in Opt("summary", {PyStr("Lunch")}),
        a \in Opt("start", {Garbage, NaiveTime}),
        b \in Opt("starting_from", {NaiveTime}),
        c \in Opt("max_results", {PyInt(1000)})}
Dicts == CreateDicts \cup ListDicts \cup DeleteDicts \cup OtherDicts \cup NoIntentDicts

\* JSON texts that are not an object.
NonDicts == {PyNone, PyInt(5), [t |-> "bool"],
             PyStr(""), PyStr("hello"), PyStr("intent unclear"),
             PyList(<<>>), PyList(<<PyInt(1)>>), PyList(<<PyStr("intent")>>)}

Response(status, shape, json) == [status |-> status, shape |-> shape, json |-> json]

\* What the reasoning service answers: a failed call, a payload without text,
\* text that is no JSON, bare JSON, or one JSON object wrapped in prose.
Responses ==
    {Response(st, "missing", PyNone) :
        st \in {"timeout", "conn_error", "http_error", "bad_body"}}
    \cup {Response("ok", sh, PyNone) : sh \in {"missing", "empty", "prose", "two_objects"}}
    \cup {Response("ok", "bare", j) : j \in NonDicts}
    \cup {Response("ok", "bare", PyDict(d)) : d \in Dicts}
    \cup {Response("ok", "wrapped", j) :
            j \in {PyDict("intent" :> PyStr("list")), PyDict(EmptyDict), PyList(<<PyInt(1)>>)}}

\* An event of a list-events answer; an event without a title has no summary.
Items == [id : 1..MaxItems, titled : BOOLEAN]
\* Answers of the store: events in the store's order, no event twice.
ItemLists ==
    {l \in UNION {[1..n -> Items] : n \in 0..MaxItems} :
        \A i, j \in 1..Len(l) : i < j => l[i].id < l[j].id}

\* fault = k: the store fails the k-th call of the message; 0: none.
Faults == 0..2

\* ------------------------------------------------------------------- state
VARIABLES
    update,     \* the update the transport holds for a handler
    clock,      \* index of the current clock reading
    handled,    \* the handler that ran for the last update
    text,       \* the user text of the last handled message
    resp,       \* what the reasoning service answered for it
    at,         \* the clock reading the handler saw
    parsed,     \* what gemini_parse_command returned
    calls,      \* the store calls issued for it, in order
    replies,    \* the reply texts sent for it
    raised      \* the exception that left the handler, or "none"

vars == <<update, clock, handled, text, resp, at, parsed, calls, replies, raised>>

NoUpdate == [kind |-> "none", text |-> <<>>]
NoResponse == Response("none", "missing", PyNone)

Init ==
    /\ update = NoUpdate
    /\ clock = 0
    /\ handled = "none"
    /\ text = <<>>
    /\ resp = NoResponse
    /\ at = 0
    /\ parsed = PyNone
    /\ calls = <<>>
    /\ replies = <<>>
    /\ raised = "none"

\* The transport receives an update; the record of the previous one is dropped.
Fresh ==
    /\ handled' = "none"
    /\ text' = <<>>
    /\ resp' = NoResponse
    /\ at' = 0
    /\ parsed' = PyNone
    /\ calls' = <<>>
    /\ replies' = <<>>
    /\ raised' = "none"

\* A text message that is no command (filters.TEXT & ~filters.COMMAND).
DeliverText ==
    /\ update.kind = "none"
    /\ \E t \in Texts : update' = [kind |-> "text", text |-> t]
    /\ Fresh
    /\ UNCHANGED clock

\* The /start command.
DeliverStart ==
    /\ update.kind = "none"
    /\ update' = [kind |-> "start", text |-> <<"/start">>]
    /\ Fresh
    /\ UNCHANGED clock

\* Lines 212-213.
Start ==
    /\ update.kind = "start"
    /\ update' = NoUpdate
    /\ handled' = "start"
    /\ replies' = <<Msg("Hi! I can manage your Google Calendar.", <<>>)>>
    /\ at' = clock
    /\ UNCHANGED <<clock, text, resp, parsed, calls, raised>>

\* Lines 215-247, with the answers of the reasoning service and of the store.
HandleMessage ==
    /\ update.kind = "text"
    /\ \E r \in Responses, fault \in Faults, items \in ItemLists :
          LET o == handle_message(update.text, r, now_in_tz(clock), fault, items)
          IN  /\ resp' = r
              /\ parsed' = o.parsed
              /\ calls' = o.calls
              /\ replies' = o.replies
              /\ raised' = o.raised
    /\ text' = update.text
    /\ at' = clock
    /\ handled' = "message"
    /\ update' = NoUpdate
    /\ UNCHANGED clock

\* Time passes.
Tick ==
    /\ clock < MaxClock
    /\ clock' = clock + 1
    /\ UNCHANGED <<update, handled, text, resp, at, parsed, calls, replies, raised>>

Next == DeliverText \/ DeliverStart \/ Start \/ HandleMessage \/ Tick

Spec == Init /\ [][Next]_vars

\* ------------------------------------------------------------------ claims
Understand == Msg("Sorry, I couldn't understand that.", <<>>)
Process == Msg("Sorry, I couldn't process that request.", <<>>)

\* A message has been handled.
Done == handled = "message"
\* The handler got a JSON object from the adapter.
GotDict == Done /\ parsed.t = "dict"
\* The intent of that object is the given one.
IntentIs(x) == GotDict /\ "intent" \in DOMAIN parsed.d /\ IsText(parsed.d["intent"], x)
\* The store calls of the message with the given operation.
CallsOf(op) == {i \in 1..Len(calls) : calls[i].op = op}
\* The reasoning service answered with one JSON object that has no intent.
NoIntentGiven ==
    /\ Done /\ resp.status = "ok" /\ resp.shape \in {"bare", "wrapped"}
    /\ resp.json.t = "dict" /\ "intent" \notin DOMAIN resp.json.d

\* C1: every handled message ends with exactly one reply and no exception
\* leaves the handler, whatever the translator and the store did.
C1_OneReplyNoException == Done => (Len(replies) = 1 /\ raised = "none")

\* The reasoning-service call failed or its text is no JSON.
TranslationFailed ==
    \/ resp.status \in {"timeout", "conn_error", "http_error", "bad_body"}
    \/ /\ resp.status = "ok"
       /\ \/ resp.shape \in {"missing", "empty", "prose", "two_objects"}
          \/ resp.shape = "wrapped" /\ resp.json.t # "dict"
\* C2: when the reasoning-service call fails (timeout, network error, bad
\* status, empty payload, text that is no JSON), gemini_parse_command returns
\* None, the reply is the "couldn't understand" message and no store call is
\* issued.
C2_FailedTranslation ==
    (Done /\ TranslationFailed) =>
        /\ parsed.t = "None"
        /\ replies = <<Understand>>
        /\ calls = <<>>
        /\ raised = "none"
C2_Witness ==
    Done /\ resp.status = "timeout" /\ replies = <<Understand>> /\ text = <<"Add", "lunch">>

\* C3: for a delete command the search asks for at most 10 events ordered by
\* start time and filtered by the summary; an empty answer leads to no
\* delete-event call and the not-found reply; a non-empty answer leads to
\* exactly one delete-event call, for the first event of the answer.
C3_DeleteFirstMatchOnly ==
    IntentIs("delete") =>
        /\ \A i \in CallsOf("list") :
              /\ calls[i].maxResults = PyInt(10)
              /\ calls[i].orderBy = "startTime"
              /\ "summary" \in DOMAIN parsed.d => calls[i].q = parsed.d["summary"]
              /\ (calls[i].ok /\ calls[i].items = <<>>) =>
                    /\ CallsOf("delete") = {}
                    /\ replies = <<Msg("Couldn't find an event to delete.", <<>>)>>
              /\ (calls[i].ok /\ calls[i].items # <<>>) =>
                    /\ Cardinality(CallsOf("delete")) = 1
                    /\ \A j \in CallsOf("delete") :
                          calls[j].eventId = calls[i].items[1].id
        /\ CallsOf("delete") # {} =>
              \E i \in CallsOf("list") : calls[i].ok /\ calls[i].items # <<>>
C3_Witness ==
    /\ IntentIs("delete")
    /\ Len(calls) = 2
    /\ calls[1].op = "list" /\ Len(calls[1].items) >= 2
    /\ calls[2].op = "delete" /\ calls[2].eventId = calls[1].items[1].id

\* C4: a delete command whose translation has no summary issues no search
\* filtered by a substituted summary and no delete-event call.
C4_DeleteNeedsSummary ==
    (IntentIs("delete") /\ "summary" \notin DOMAIN parsed.d) =>
        /\ CallsOf("delete") = {}
        /\ \A i \in CallsOf("list") : calls[i].q.t = "None"

\* C5: no store call is retried: one message issues at most one mutating
\* call (insert-event or delete-event), a call the store failed is the last
\* call of the message, and no call is issued outside the handling of a
\* message.
C5_NoRetry ==
    /\ Cardinality(CallsOf("insert") \cup CallsOf("delete")) <= 1
    /\ \A i \in 1..Len(calls) : ~calls[i].ok => i = Len(calls)
    /\ ~Done => calls = <<>>
C5_Witness ==
    /\ Done
    /\ Len(calls) = 1 /\ calls[1].op = "insert" /\ ~calls[1].ok
    /\ raised = "HttpError"

\* The cue families found in the user text.
Additive == \E k \in {"add", "schedule", "create", "book"} : InLowered(k, text)
Removal == \E k \in {"delete", "remove", "cancel"} : InLowered(k, text)
Viewing == \E k \in {"show", "list", "what's", "upcoming"} : InLowered(k, text)
\* C6: when the translation has no intent, the intent is create if the text
\* has an additive cue, else delete if it has a removal cue, else list if it
\* has a viewing cue; with no cue at all the reply is the "couldn't process"
\* message and no store call is made.
C6_IntentInferred ==
    NoIntentGiven =>
        /\ Additive => IntentIs("create")
        /\ (~Additive /\ Removal) => IntentIs("delete")
        /\ (~Additive /\ ~Removal /\ Viewing) => IntentIs("list")
        /\ (~Additive /\ ~Removal /\ ~Viewing) =>
              (calls = <<>> /\ replies = <<Process>>)

\* C7: the maxResults of a list command's list-events call is 5 when the
\* translation gives no max_results, and never exceeds 50.
C7_MaxResultsBounded ==
    IntentIs("list") =>
        \A i \in CallsOf("list") :
            /\ "max_results" \notin DOMAIN parsed.d => calls[i].maxResults = PyInt(5)
            /\ calls[i].maxResults.n <= 50

\* C8: an inserted event whose translation has no start starts on the current
\* date at exactly 09:00:00 in the reference timezone; one whose translation
\* has no end ends exactly one hour after its start.
C8_CreateDefaults ==
    IntentIs("create") =>
        \A i \in CallsOf("insert") :
            /\ "start" \notin DOMAIN parsed.d =>
                  calls[i].start = IsoStr(now_in_tz(at).day, 9 * 3600, 0, TRUE, BOT_TZ)
            /\ "end" \notin DOMAIN parsed.d =>
                  Abs(calls[i].end) = Abs(calls[i].start) + 3600

\* C9: every timestamp handed to the store (start and end of an insert, the
\* timeMin of a list-events call) carries an explicit UTC offset.
C9_TimestampsHaveOffset ==
    \A i \in 1..Len(calls) :
        /\ calls[i].op = "insert" => (calls[i].start.aware /\ calls[i].end.aware)
        /\ calls[i].op = "list" => calls[i].timeMin.aware

\* The intent is one the dispatcher has a branch for.
Dispatched == IntentIs("create") \/ IntentIs("list") \/ IntentIs("delete")
\* C10: a store call is issued only when the intent of the parsed translation
\* is create, list or delete; for any other intent, or none, no store call is
\* made and the reply is the "couldn't process" message.
C10_OnlyKnownIntents ==
    /\ calls # <<>> => Dispatched
    /\ (GotDict /\ Truthy(parsed) /\ ~Dispatched) =>
          (calls = <<>> /\ replies = <<Process>>)

====
